---- MODULE Spec2Model ----
(***************************************************************************)
(* A model of lib/colord/cd-icc.c: the CdIcc object (struct _CdIccPrivate), *)
(* its load entry points, the localized text cache, the metadata           *)
(* dictionary and cd_icc_save_file.  lcms2 is modelled through the calls   *)
(* the source makes on it; an lcms profile is a record of header fields    *)
(* and tags.                                                               *)
(*                                                                         *)
(* Text: a locale is a sequence of one-character strings; a byte string    *)
(* (named colour text, profile id) is a sequence of numbers 0..255; a      *)
(* narrow string held in a hash table is a TLA+ string and its wide form,  *)
(* as lcms holds it, is the pair <<"L", s>>.                               *)
(***************************************************************************)
EXTENDS Integers, Sequences, FiniteSets, TLC

\* ------------------------------------------------------------------ bounds
MaxOps == 3
MaxTextOps == 4
MaxSaveOps == 3
MaxTripOps == 4
MaxKeyOps == 3
MaxOrderOps == 3
MaxRepairOps == 2
MaxRepairLen == 4
MaxDefaultOps == 6
MaxObjects == 2

\* ------------------------------------------------------- program constants
HeaderMin == 132
IdLen == 16

\* ----------------------------------------------------------- error domain
ERR_NONE == "none"
FAILED_TO_OPEN == "FailedToOpen"
FAILED_TO_PARSE == "FailedToParse"
FAILED_TO_SAVE == "FailedToSave"
INVALID_LOCALE == "InvalidLocale"
NO_DATA == "NoData"

\* ------------------------------------------------------------- enum CdIccMluc
CD_MLUC_DESCRIPTION == "description"
CD_MLUC_COPYRIGHT == "copyright"
CD_MLUC_MANUFACTURER == "manufacturer"
CD_MLUC_MODEL == "model"
CdIccMluc == {CD_MLUC_DESCRIPTION, CD_MLUC_COPYRIGHT, CD_MLUC_MANUFACTURER, CD_MLUC_MODEL}

\* ----------------------------------------------------------------- flags
FLAG_METADATA == "metadata"
FLAG_NAMED_COLORS == "named-colors"
FLAG_TRANSLATIONS == "translations"
FLAG_FALLBACK_MD5 == "fallback-md5"

\* ------------------------------------------------------------ narrow / wide
\* a narrow string that mbstowcs() rejects, and a wide string that
\* wcstombs() rejects
Bad8 == "\\xff"
BadW == <<"L", "\\x110000">>
NoText == "(null)"

Wide(s) == <<"L", s>>

\* a text of 128 characters, and its first 127
Long128 == "x*128"
Cut127 == "x*127"

\* what wchar_t wtext[128] holds after cmsMLUgetWide (.., wtext,
\* sizeof (wtext)): at most 127 characters and the terminator
Fit(w) ==
  IF w = Wide(Long128) THEN Wide(Cut127) ELSE w

\* mbstowcs: [ok, w]
mbstowcs(s) ==
  IF s = Bad8 THEN [ok |-> FALSE, w |-> BadW] ELSE [ok |-> TRUE, w |-> Wide(s)]

\* wcstombs: [ok, s]
wcstombs(w) ==
  IF w = BadW THEN [ok |-> FALSE, s |-> NoText] ELSE [ok |-> TRUE, s |-> w[2]]

\* ------------------------------------------------------------ locale text
NullLocale == <<"NULL">>
EmptyStr == <<>>
en_US == <<"e", "n", "_", "U", "S">>

g_str_has_prefix(s, p) ==
  /\ Len(s) >= Len(p)
  /\ SubSeq(s, 1, Len(p)) = p

\* index of the first element of s that is in delims, or Len(s)+1
FirstOf(s, delims) ==
  IF \E i \in 1..Len(s) : s[i] \in delims
  THEN CHOOSE i \in 1..Len(s) : s[i] \in delims /\ \A j \in 1..(i-1) : s[j] \notin delims
  ELSE Len(s) + 1

\* g_strdelimit that replaces only '.'
g_strdelimit_dot(s, delims) == SubSeq(s, 1, FirstOf(s, {"."}) - 1)

\* g_strdelimit (s, delims, '\0') as the C string that results
g_strdelimit0(s, delims) == SubSeq(s, 1, FirstOf(s, delims) - 1)

\* g_strsplit (s, "_", -1) of a non-empty string
RECURSIVE g_strsplit(_)
g_strsplit(s) ==
  LET i == FirstOf(s, {"_"}) IN
  IF i > Len(s) THEN <<s>>
  ELSE <<SubSeq(s, 1, i - 1)>> \o g_strsplit(SubSeq(s, i + 1, Len(s)))

cd_icc_get_locale_key(locale) ==
  IF locale = NullLocale \/ g_str_has_prefix(locale, en_US)
  THEN EmptyStr
  ELSE g_strdelimit0(locale, {".", "("})

\* ------------------------------------------------- kind / colorspace tables
CD_PROFILE_KIND_UNKNOWN == "kind-unknown"
CD_PROFILE_KIND_LAST == "kind-last"
CD_COLORSPACE_UNKNOWN == "colorspace-unknown"
CD_COLORSPACE_LAST == "colorspace-last"

map_profile_kind ==
  << [lcms |-> "scnr", colord |-> "input-device"],
     [lcms |-> "mntr", colord |-> "display-device"],
     [lcms |-> "prtr", colord |-> "output-device"],
     [lcms |-> "link", colord |-> "devicelink"],
     [lcms |-> "spac", colord |-> "colorspace-conversion"],
     [lcms |-> "abst", colord |-> "abstract"],
     [lcms |-> "nmcl", colord |-> "named-color"],
     [lcms |-> "0", colord |-> CD_PROFILE_KIND_LAST] >>

map_colorspace ==
  << [lcms |-> "XYZ ", colord |-> "xyz"],
     [lcms |-> "Lab ", colord |-> "lab"],
     [lcms |-> "Luv ", colord |-> "luv"],
     [lcms |-> "YCbr", colord |-> "ycbcr"],
     [lcms |-> "Yxy ", colord |-> "yxy"],
     [lcms |-> "RGB ", colord |-> "rgb"],
     [lcms |-> "GRAY", colord |-> "gray"],
     [lcms |-> "HSV ", colord |-> "hsv"],
     [lcms |-> "CMYK", colord |-> "cmyk"],
     [lcms |-> "CMY ", colord |-> "cmy"],
     [lcms |-> "0", colord |-> CD_COLORSPACE_LAST] >>

\* the rows a scanning loop visits: those before the terminating row
TableRows(table, last) ==
  LET stop == CHOOSE i \in 1..Len(table) :
                /\ table[i].colord = last
                /\ \A j \in 1..(i-1) : table[j].colord # last
  IN 1..(stop - 1)

\* for (i = 0; table[i].colord != LAST; i++) if (table[i].lcms == sig) { cur = table[i].colord; break; }
LcmsToColord(table, last, sig, cur) ==
  LET hits == {i \in TableRows(table, last) : table[i].lcms = sig} IN
  IF hits = {} THEN cur
  ELSE table[CHOOSE i \in hits : \A j \in hits : i <= j].colord

\* the scan of the table with the native field cleared when no row matches
ColordToLcmsOrClear(table, last, val, cur) ==
  LET hits == {i \in TableRows(table, last) : table[i].colord = val} IN
  IF hits = {} THEN "0"
  ELSE table[CHOOSE i \in hits : \A j \in hits : i <= j].lcms

\* for (i = 0; table[i].colord != LAST; i++) if (table[i].colord == val) { set (table[i].lcms); break; }
ColordToLcms(table, last, val, cur) ==
  LET hits == {i \in TableRows(table, last) : table[i].colord = val} IN
  IF hits = {} THEN cur
  ELSE table[CHOOSE i \in hits : \A j \in hits : i <= j].lcms

\* ------------------------------------------------------------ profile id
HexDigits == <<"0", "1", "2", "3", "4", "5", "6", "7",
               "8", "9", "a", "b", "c", "d", "e", "f">>

\* g_snprintf (.., "%02x", b)
Hex02x(b) == <<HexDigits[(b \div 16) + 1], HexDigits[(b % 16) + 1]>>

RECURSIVE HexString(_)
HexString(bytes) ==
  IF bytes = <<>> THEN <<>>
  ELSE Hex02x(Head(bytes)) \o HexString(Tail(bytes))

NoChecksum == <<>>

\* the 16 bytes cmsGetHeaderProfileID() copies out of the header
cmsGetHeaderProfileID(prof) == prof.id

cd_icc_get_precooked_md5_first(prof) ==
  LET icc_id == cmsGetHeaderProfileID(prof)
      md5_precooked == icc_id[1] # 0
  IN IF md5_precooked = FALSE THEN NoChecksum ELSE HexString(icc_id)

cd_icc_get_precooked_md5(prof) ==
  LET icc_id == cmsGetHeaderProfileID(prof)
      md5_precooked == \E i \in 1..IdLen : icc_id[i] # 0
  IN IF md5_precooked = FALSE THEN NoChecksum ELSE HexString(icc_id)

\* g_compute_checksum_for_data (G_CHECKSUM_MD5, data, data_len): the
\* lowercase hex form of the MD5 digest of the buffer
g_compute_checksum_for_data(data) == HexString(data.md5)


\* ------------------------------------------------------ text repair (bytes)
IsCont(b) == b >= 128 /\ b <= 191

\* g_utf8_validate (str, len, NULL)
RECURSIVE g_utf8_validate(_)
g_utf8_validate(s) ==
  IF s = <<>> THEN TRUE
  ELSE LET b == s[1]
           n == Len(s)
       IN IF b < 128 THEN b # 0 /\ g_utf8_validate(Tail(s))
          ELSE IF b >= 194 /\ b <= 223
               THEN n >= 2 /\ IsCont(s[2]) /\ g_utf8_validate(SubSeq(s, 3, n))
          ELSE IF b >= 224 /\ b <= 239
               THEN /\ n >= 3 /\ IsCont(s[2]) /\ IsCont(s[3])
                    /\ (b = 224 => s[2] >= 160)
                    /\ (b = 237 => s[2] <= 159)
                    /\ g_utf8_validate(SubSeq(s, 4, n))
          ELSE IF b >= 240 /\ b <= 244
               THEN /\ n >= 4 /\ IsCont(s[2]) /\ IsCont(s[3]) /\ IsCont(s[4])
                    /\ (b = 240 => s[2] >= 144)
                    /\ (b = 244 => s[2] <= 143)
                    /\ g_utf8_validate(SubSeq(s, 5, n))
          ELSE FALSE

\* the for loop of cd_icc_fix_utf8_string, from index i (1-based) on
RECURSIVE FixLoop(_, _)
FixLoop(s, i) ==
  IF i > Len(s) THEN s
  ELSE IF s[i] = 174
       THEN FixLoop(SubSeq(s, 1, i - 1) \o <<194, 174>> \o SubSeq(s, i + 1, Len(s)), i + 2)
  ELSE IF s[i] = 134
       THEN FixLoop(SubSeq(s, 1, i - 1) \o SubSeq(s, i + 1, Len(s)), i + 1)
  ELSE FixLoop(s, i + 1)

\* cd_icc_fix_utf8_string: [ret, str]
cd_icc_fix_utf8_string(string) ==
  LET fixed == FixLoop(string, 1)
  IN [ret |-> g_utf8_validate(fixed), str |-> fixed]

\* cmsLabEncoded2Float (ICC v4 encoding)
cmsLabEncoded2Float(pcs) ==
  [L |-> (pcs[1] * 100) \div 65535,
   a |-> (pcs[2] \div 257) - 128,
   b |-> (pcs[3] \div 257) - 128]

\* the title composed in cd_icc_load_named_colors
ComposeName(prefix, name, suffix) ==
  (IF prefix # <<>> THEN prefix \o <<32>> ELSE <<>>)
    \o name
    \o (IF suffix # <<>> THEN <<32>> \o suffix ELSE <<>>)

\* the body of the loop of cd_icc_load_named_colors for the entries nc[j..]
RECURSIVE NamedColorLoop(_, _, _)
NamedColorLoop(nc, j, acc) ==
  IF j > Len(nc) THEN acc
  ELSE LET e == nc[j]
           string == ComposeName(e.prefix, e.name, e.suffix)
           valid == g_utf8_validate(string)
           fix == cd_icc_fix_utf8_string(string)
           ret == IF valid THEN TRUE ELSE fix.ret
           str == IF valid THEN string ELSE fix.str
       IN IF ~e.ok THEN NamedColorLoop(nc, j + 1, acc)
          ELSE IF ret
               THEN NamedColorLoop(nc, j + 1,
                      Append(acc, [name |-> str, value |-> cmsLabEncoded2Float(e.pcs)]))
               ELSE NamedColorLoop(nc, j + 1, acc)

\* cd_icc_load_named_colors: the new priv->named_colors
cd_icc_load_named_colors(named_colors, prof) ==
  IF ~prof.ncl2.present THEN named_colors
  ELSE NamedColorLoop(prof.ncl2.colors, 1, named_colors)

\* -------------------------------------------------------- multilingual text
cmsNoLanguage == <<>>
cmsNoCountry == <<>>
SigDscm == "dscm"
cmsSigProfileDescriptionTag == "desc"
cmsSigCopyrightTag == "cprt"
cmsSigDeviceMfgDescTag == "dmnd"
cmsSigDeviceModelDescTag == "dmdd"
MluSigs == {SigDscm, cmsSigProfileDescriptionTag, cmsSigCopyrightTag,
            cmsSigDeviceMfgDescTag, cmsSigDeviceModelDescTag}

\* the tags each getter tries, in order (sigs[] of cd_icc_get_description etc.)
ReadSigs(mluc) ==
  CASE mluc = CD_MLUC_DESCRIPTION -> <<SigDscm, cmsSigProfileDescriptionTag>>
    [] mluc = CD_MLUC_COPYRIGHT -> <<cmsSigCopyrightTag>>
    [] mluc = CD_MLUC_MANUFACTURER -> <<cmsSigDeviceMfgDescTag>>
    [] mluc = CD_MLUC_MODEL -> <<cmsSigDeviceModelDescTag>>

\* the tag cd_icc_save_file writes for each field
WriteSig(mluc) ==
  CASE mluc = CD_MLUC_DESCRIPTION -> cmsSigProfileDescriptionTag
    [] mluc = CD_MLUC_COPYRIGHT -> cmsSigCopyrightTag
    [] mluc = CD_MLUC_MANUFACTURER -> cmsSigDeviceMfgDescTag
    [] mluc = CD_MLUC_MODEL -> cmsSigDeviceModelDescTag

AbsentMlu == [present |-> FALSE, entries |-> {}]

\* cmsMLUgetWide (mlu, language_code, country_code, ..): the text stored
\* for exactly that pair, size 0 when there is none
cmsMLUgetWide(mlu, language_code, country_code) ==
  LET hits == {e \in mlu.entries : e.language_code = language_code
                                   /\ e.country_code = country_code}
  IN IF hits = {} THEN [text_size |-> 0, wtext |-> BadW]
     ELSE [text_size |-> 1, wtext |-> (CHOOSE e \in hits : TRUE).wtext]

\* the first tag of sigs that cmsReadTag finds, "" when none
FirstTag(prof, sigs) ==
  LET hits == {i \in 1..Len(sigs) : prof.mlu[sigs[i]].present} IN
  IF hits = {} THEN ""
  ELSE sigs[CHOOSE i \in hits : \A j \in hits : i <= j]

\* lines 1606-1633 of cd_icc_get_mluc_data: the codes read out of
\* locale_key, and locale_key as it is left after *tmp = '\0'
DecomposeKey(locale_key) ==
  LET i == FirstOf(locale_key, {"_"}) IN
  IF locale_key = EmptyStr
  THEN [language_code |-> cmsNoLanguage, country_code |-> cmsNoCountry,
        locale_key |-> locale_key, valid |-> TRUE]
  ELSE LET language_code == SubSeq(locale_key, 1, i - 1)
           country_code == IF i <= Len(locale_key)
                           THEN SubSeq(locale_key, i + 1, Len(locale_key))
                           ELSE cmsNoCountry
       IN [language_code |-> language_code,
           country_code |-> country_code,
           locale_key |-> language_code,
           valid |-> /\ Len(language_code) = 2
                     /\ ~(country_code # <<>> /\ Len(country_code) # 2)]

\* cd_icc_get_mluc_data: [mluc_data, value, err]
cd_icc_get_mluc_data(mluc_data, prof, locale, mluc, sigs) ==
  LET key0 == cd_icc_get_locale_key(locale)
      hash == mluc_data[mluc]
      d == DecomposeKey(key0)
      sig == FirstTag(prof, sigs)
      got == cmsMLUgetWide(prof.mlu[sig], d.language_code, d.country_code)
      rc == wcstombs(Fit(got.wtext))
  IN IF key0 \in DOMAIN hash
     THEN [mluc_data |-> mluc_data, value |-> hash[key0], err |-> ERR_NONE]
     ELSE IF ~d.valid
     THEN [mluc_data |-> mluc_data, value |-> NoText, err |-> INVALID_LOCALE]
     ELSE IF sig = ""
     THEN [mluc_data |-> mluc_data, value |-> NoText, err |-> NO_DATA]
     ELSE IF got.text_size = 0
     THEN [mluc_data |-> mluc_data, value |-> NoText, err |-> ERR_NONE]
     ELSE IF ~rc.ok
     THEN [mluc_data |-> mluc_data, value |-> NoText, err |-> NO_DATA]
     ELSE [mluc_data |-> [mluc_data EXCEPT ![mluc] =
                            [k \in (DOMAIN hash) \cup {d.locale_key} |->
                               IF k = d.locale_key THEN rc.s ELSE hash[k]]],
           value |-> rc.s, err |-> ERR_NONE]


\* ---------------------------------------------------------------- metadata
EmptyHash == [k \in {} |-> NoText]
HashInsert(hash, key, value) ==
  [k \in (DOMAIN hash) \cup {key} |-> IF k = key THEN value ELSE hash[k]]
HashRemove(hash, key) ==
  [k \in (DOMAIN hash) \ {key} |-> hash[k]]

AbsentDict == [present |-> FALSE, entries |-> <<>>]
Uninit == "(uninitialized)"
Junk == "junk"

\* what a 1024-byte stack buffer can hold after a wcstombs() that returned
\* -1 and whose return value was not looked at: the bytes it held before,
\* or anything else
BufferAfter(w, before) ==
  IF wcstombs(w).ok THEN {wcstombs(w).s}
  ELSE {Junk, Bad8} \cup (IF before = Uninit THEN {} ELSE {before})

\* the for loop of cd_icc_load over cmsDictGetEntryList: the set of
\* hash tables it can leave
RECURSIVE DictLoop(_, _, _, _, _)
DictLoop(entries, j, ascii_name, ascii_value, metadata) ==
  IF j > Len(entries) THEN {metadata}
  ELSE UNION { DictLoop(entries, j + 1, n, v, HashInsert(metadata, n, v)) :
                 <<n, v>> \in BufferAfter(entries[j].Name, ascii_name)
                              \X BufferAfter(entries[j].Value, ascii_value) }

\* lines 530-551
LoadMetadata(metadata, prof, flags) ==
  IF FLAG_METADATA \in flags /\ prof.meta.present
  THEN DictLoop(prof.meta.entries, 1, Uninit, Uninit, metadata)
  ELSE {metadata}

\* utf8_to_wchar_t: [null, w]
utf8_to_wchar_t(src) ==
  LET r == mbstowcs(src) IN
  IF ~r.ok THEN [null |-> TRUE, w |-> BadW] ELSE [null |-> FALSE, w |-> r.w]

\* _cmsDictAddEntryAscii: [ret, dict]
cmsDictAddEntryAscii(dict, key, value) ==
  LET mb_key == utf8_to_wchar_t(key)
      mb_value == utf8_to_wchar_t(value)
  IN IF mb_key.null THEN [ret |-> FALSE, dict |-> dict]
     ELSE IF mb_value.null THEN [ret |-> FALSE, dict |-> dict]
     ELSE [ret |-> TRUE, dict |-> Append(dict, [Name |-> mb_key.w, Value |-> mb_value.w])]

\* the order g_hash_table_get_keys() lists the strings of this model in
KeyOrder == <<"A", "B", "C", Junk, Bad8, NoText, Uninit>>
KeyRank(k) == CHOOSE i \in 1..Len(KeyOrder) : KeyOrder[i] = k

RECURSIVE g_hash_table_get_keys(_)
g_hash_table_get_keys(keys) ==
  IF keys = {} THEN <<>>
  ELSE LET k == CHOOSE x \in keys : \A y \in keys : KeyRank(x) <= KeyRank(y)
       IN <<k>> \o g_hash_table_get_keys(keys \ {k})

\* lines 903-911: the dictionary built from priv->metadata
RECURSIVE BuildDict(_, _, _, _)
BuildDict(metadata, md_keys, l, dict) ==
  IF l > Len(md_keys) THEN dict
  ELSE BuildDict(metadata, md_keys, l + 1,
                 cmsDictAddEntryAscii(dict, md_keys[l], metadata[md_keys[l]]).dict)

\* ------------------------------------------------------- localized write-back
NullObj == [null |-> TRUE, locale |-> EmptyStr, language_code |-> cmsNoLanguage,
            country_code |-> cmsNoCountry, wnull |-> TRUE, wtext |-> BadW]

MluObject(locale, language_code, country_code, wtext) ==
  [null |-> FALSE, locale |-> locale, language_code |-> language_code,
   country_code |-> country_code, wnull |-> wtext.null, wtext |-> wtext.w]

\* lines 722-758 without the test type > 2
ParseSplitNoCount(locale, split, wtext) ==
  IF \E i \in 1..Len(locale) : locale[i] = "@" THEN NullObj
  ELSE IF Len(split[1]) # 2 THEN NullObj
  ELSE IF wtext.null THEN NullObj
  ELSE IF Len(split) = 1 THEN MluObject(locale, split[1], cmsNoCountry, wtext)
  ELSE IF Len(split[2]) # 2 THEN NullObj
  ELSE MluObject(locale, split[1], split[2], wtext)

\* lines 722-758 of cd_util_mlu_object_parse: a locale that is not empty,
\* split is g_strsplit of the locale cut at '.', wtext the converted text
ParseSplit(locale, split, wtext) ==
  IF \E i \in 1..Len(locale) : locale[i] = "@" THEN NullObj
  ELSE IF Len(split[1]) # 2 THEN NullObj
  ELSE IF Len(split) > 2 THEN NullObj
  ELSE IF wtext.null THEN NullObj
  ELSE IF Len(split) = 1 THEN MluObject(locale, split[1], cmsNoCountry, wtext)
  ELSE IF Len(split[2]) # 2 THEN NullObj
  ELSE MluObject(locale, split[1], split[2], wtext)

\* cd_util_mlu_object_parse; the object remembers the key it came from
cd_util_mlu_object_parse(locale, utf8_text) ==
  IF locale = EmptyStr
  THEN MluObject(locale, cmsNoLanguage, cmsNoCountry, utf8_to_wchar_t(utf8_text))
  ELSE ParseSplit(locale, g_strsplit(g_strdelimit0(locale, {"."})),
                  utf8_to_wchar_t(utf8_text))

\* the faults lcms and gio can report during a save
FaultMeta == "cmsWriteTag-meta"
FaultMlu == "cmsMLUsetWide"
FaultTag == "cmsWriteTag-mlu"
FaultMd5 == "cmsMD5computeID"
FaultSize == "cmsSaveProfileToMem-size"
FaultDump == "cmsSaveProfileToMem-data"
FaultReplace == "g_file_replace_contents"
NoFault == [at |-> "none", sig |-> ""]

\* cmsSetProfileVersion
cmsSetProfileVersion(prof, version) == [prof EXCEPT !.ver = version]

\* lines 780-790: the objects cd_util_write_tag_localized keeps
MluArray(hash) ==
  {o \in {cd_util_mlu_object_parse(locale, hash[locale]) : locale \in DOMAIN hash} : ~o.null}

\* an empty multilingual structure written in place of NULL
WriteEmptyTag(prof, sig) == [prof EXCEPT !.mlu[sig] = [present |-> TRUE, entries |-> {}]]

\* cmsWriteTag (profile, sig, NULL)
DeleteTag(prof, sig) == [prof EXCEPT !.mlu[sig] = AbsentMlu]

\* lines 798-800 with the test array->len > 2
PromoteMany(version, prof, len) ==
  IF len > 2 /\ version < 40 THEN cmsSetProfileVersion(prof, 40) ELSE prof

\* lines 798-800
Promote(version, prof, len) ==
  IF len > 1 /\ version < 40 THEN cmsSetProfileVersion(prof, 40) ELSE prof

\* lines 802-817: the cmsMLU built from the array
MluOf(array) ==
  [present |-> TRUE,
   entries |-> {[language_code |-> o.language_code, country_code |-> o.country_code,
                 wtext |-> o.wtext] : o \in array}]

\* lines 802-835: [ret, err, prof]
WriteMlu(prof, sig, fault, array) ==
  IF (\E o \in array : o.wnull) \/ (fault.at = FaultMlu /\ fault.sig = sig)
  THEN [ret |-> FALSE, err |-> FAILED_TO_SAVE, prof |-> prof]
  ELSE IF fault.at = FaultTag /\ fault.sig = sig
  THEN [ret |-> FALSE, err |-> FAILED_TO_SAVE, prof |-> prof]
  ELSE IF sig = cmsSigProfileDescriptionTag
  THEN [ret |-> TRUE, err |-> ERR_NONE,
        prof |-> DeleteTag([prof EXCEPT !.mlu[sig] = MluOf(array)], SigDscm)]
  ELSE [ret |-> TRUE, err |-> ERR_NONE, prof |-> [prof EXCEPT !.mlu[sig] = MluOf(array)]]

\* lines 792-835: [ret, err, prof]
WriteArray(version, prof, sig, fault, array) ==
  IF Cardinality(array) = 0
  THEN [ret |-> TRUE, err |-> ERR_NONE, prof |-> DeleteTag(prof, sig)]
  ELSE WriteMlu(Promote(version, prof, Cardinality(array)), sig, fault, array)

\* cd_util_write_tag_localized: [ret, err, prof]
cd_util_write_tag_localized(version, prof, sig, hash, fault) ==
  WriteArray(version, prof, sig, fault, MluArray(hash))

\* -------------------------------------------------------------- lcms profile
ZeroId == <<0, 0, 0, 0, 0, 0, 0, 0, 0, 0, 0, 0, 0, 0, 0, 0>>
NoMlus == [sig \in MluSigs |-> AbsentMlu]
AbsentNcl == [present |-> FALSE, colors |-> <<>>]
NoProfile == [cls |-> "0", space |-> "0", ver |-> 0, id |-> ZeroId,
              mlu |-> NoMlus, meta |-> AbsentDict, ncl2 |-> AbsentNcl]

TagCount(prof) ==
  Cardinality({sig \in MluSigs : prof.mlu[sig].present})
    + (IF prof.meta.present THEN 1 ELSE 0)
    + (IF prof.ncl2.present THEN 1 ELSE 0)

\* an identifier derived from the content and the identifier held before
cmsMD5computeID_chained(prof) ==
  [prof EXCEPT !.id = <<(prof.id[1] + 1 + TagCount(prof)) % 256, prof.ver>>
                        \o SubSeq(ZeroId, 3, IdLen)]

\* cmsMD5computeID: the identifier lcms derives from the profile's content
cmsMD5computeID(prof) ==
  [prof EXCEPT !.id = <<1 + TagCount(prof), prof.ver>> \o SubSeq(ZeroId, 3, IdLen)]

\* cmsSaveProfileToMem: the buffer lcms serializes the profile to
cmsSaveProfileToMem(prof) ==
  [len |-> 132 + 12 * TagCount(prof),
   accept |-> TRUE,
   prof |-> prof,
   md5 |-> <<prof.ver, TagCount(prof)>> \o SubSeq(ZeroId, 3, IdLen)]

NoFile == [len |-> 0, accept |-> FALSE, prof |-> NoProfile, md5 |-> ZeroId]

\* ------------------------------------------------------------- CdIccPrivate
NoFilename == ""
\* cd_icc_init
cd_icc_init ==
  [colorspace |-> CD_COLORSPACE_UNKNOWN,
   kind |-> CD_PROFILE_KIND_UNKNOWN,
   lcms_profile |-> 0,
   can_delete |-> FALSE,
   checksum |-> NoChecksum,
   filename |-> NoFilename,
   version |-> 0,
   mluc_data |-> [m \in CdIccMluc |-> EmptyHash],
   metadata |-> EmptyHash,
   size |-> 0,
   named_colors |-> <<>>]

\* lines 556-560: the four default-locale reads, errors discarded
ReadDefaults(mluc_data, prof) ==
  LET d1 == cd_icc_get_mluc_data(mluc_data, prof, NullLocale, CD_MLUC_DESCRIPTION,
                                 ReadSigs(CD_MLUC_DESCRIPTION)).mluc_data
      d2 == cd_icc_get_mluc_data(d1, prof, NullLocale, CD_MLUC_COPYRIGHT,
                                 ReadSigs(CD_MLUC_COPYRIGHT)).mluc_data
      d3 == cd_icc_get_mluc_data(d2, prof, NullLocale, CD_MLUC_MANUFACTURER,
                                 ReadSigs(CD_MLUC_MANUFACTURER)).mluc_data
  IN cd_icc_get_mluc_data(d3, prof, NullLocale, CD_MLUC_MODEL,
                          ReadSigs(CD_MLUC_MODEL)).mluc_data

\* cd_icc_load: the set of private states it can leave (p.lcms_profile is
\* already set, prof is the profile behind it)
cd_icc_load(p, prof, flags) ==
  { [p EXCEPT
       !.version = prof.ver,
       !.kind = LcmsToColord(map_profile_kind, CD_PROFILE_KIND_LAST, prof.cls, p.kind),
       !.colorspace = LcmsToColord(map_colorspace, CD_COLORSPACE_LAST, prof.space, p.colorspace),
       !.metadata = md,
       !.checksum = cd_icc_get_precooked_md5(prof),
       !.mluc_data = ReadDefaults(p.mluc_data, prof),
       !.named_colors = IF FLAG_NAMED_COLORS \in flags
                        THEN cd_icc_load_named_colors(p.named_colors, prof)
                        ELSE p.named_colors]
    : md \in LoadMetadata(p.metadata, prof, flags) }

\* lines 624-630 of cd_icc_load_data
FallbackChecksum(p, data, flags) ==
  IF p.checksum = NoChecksum /\ FLAG_FALLBACK_MD5 \in flags
  THEN [p EXCEPT !.checksum = g_compute_checksum_for_data(data)]
  ELSE p

\* line 598, without the four bytes of the tag count
TooSmallHeaderOnly(data_len) == data_len < HeaderMin - 4

\* line 598
TooSmall(data_len) == data_len < HeaderMin

\* cd_icc_load_data: the set of outcomes [ret, err, priv, prof, opened];
\* opened tells whether cmsOpenProfileFromMem was called
cd_icc_load_data(p, prof, data, flags, handle) ==
  IF p.lcms_profile # 0 \/ data.len = 0
  THEN {[ret |-> FALSE, err |-> ERR_NONE, priv |-> p, prof |-> prof, opened |-> FALSE]}
  ELSE IF TooSmall(data.len)
  THEN {[ret |-> FALSE, err |-> FAILED_TO_PARSE, priv |-> p, prof |-> prof, opened |-> FALSE]}
  ELSE IF ~data.accept
  THEN {[ret |-> FALSE, err |-> FAILED_TO_PARSE, priv |-> [p EXCEPT !.lcms_profile = 0],
         prof |-> prof, opened |-> TRUE]}
  ELSE {[ret |-> TRUE, err |-> ERR_NONE,
         priv |-> FallbackChecksum(q, data, flags),
         prof |-> data.prof, opened |-> TRUE]
        : q \in cd_icc_load([p EXCEPT !.lcms_profile = handle, !.size = data.len],
                            data.prof, flags)}

\* cd_icc_load_file: the set of outcomes [ret, err, priv, prof, opened]
cd_icc_load_file(p, prof, file, flags, handle) ==
  IF ~file.readable
  THEN {[ret |-> FALSE, err |-> FAILED_TO_OPEN, priv |-> p, prof |-> prof, opened |-> FALSE]}
  ELSE { IF ~r.ret THEN r
         ELSE IF ~file.queryOk
         THEN [r EXCEPT !.ret = r.ret, !.err = FAILED_TO_OPEN]
         ELSE [r EXCEPT !.priv = [r.priv EXCEPT !.can_delete = file.can_delete,
                                               !.filename = file.path]]
         : r \in cd_icc_load_data(p, prof, file.data, flags, handle) }

\* cd_icc_load_fd: the set of outcomes [ret, err, priv, prof, opened]
cd_icc_load_fd(p, prof, fd, flags, handle) ==
  IF ~fd.fdopenOk
  THEN {[ret |-> FALSE, err |-> FAILED_TO_OPEN, priv |-> p, prof |-> prof, opened |-> FALSE]}
  ELSE IF ~fd.data.accept
  THEN {[ret |-> FALSE, err |-> FAILED_TO_OPEN, priv |-> [p EXCEPT !.lcms_profile = 0],
         prof |-> NoProfile, opened |-> TRUE]}
  ELSE {[ret |-> TRUE, err |-> ERR_NONE, priv |-> q, prof |-> fd.data.prof, opened |-> TRUE]
        : q \in cd_icc_load([p EXCEPT !.lcms_profile = handle], fd.data.prof, flags)}

\* cd_icc_set_handle: the new priv
cd_icc_set_handle(p, handle) ==
  IF handle = 0 \/ p.lcms_profile # 0 THEN p
  ELSE [p EXCEPT !.lcms_profile = handle]


\* -------------------------------------------------------------------- save
\* lines 879-899
SaveHeader(p, prof) ==
  LET a == [prof EXCEPT
              !.cls = ColordToLcms(map_profile_kind, CD_PROFILE_KIND_LAST, p.kind, prof.cls),
              !.space = ColordToLcms(map_colorspace, CD_COLORSPACE_LAST, p.colorspace, prof.space)]
  IN IF p.version > 0 THEN cmsSetProfileVersion(a, p.version) ELSE a

\* lines 901-922: [ret, err, prof]
SaveMetadata(p, prof, fault) ==
  IF DOMAIN p.metadata # {}
  THEN IF fault.at = FaultMeta
       THEN [ret |-> FALSE, err |-> FAILED_TO_SAVE, prof |-> prof]
       ELSE [ret |-> TRUE, err |-> ERR_NONE,
             prof |-> [prof EXCEPT !.meta =
                         [present |-> TRUE,
                          entries |-> BuildDict(p.metadata,
                                                g_hash_table_get_keys(DOMAIN p.metadata),
                                                1, <<>>)]]]
  ELSE [ret |-> TRUE, err |-> ERR_NONE, prof |-> [prof EXCEPT !.meta = AbsentDict]]

SaveOrder == <<CD_MLUC_DESCRIPTION, CD_MLUC_COPYRIGHT, CD_MLUC_MANUFACTURER, CD_MLUC_MODEL>>

\* lines 924-948: w is what the step before returned; the calls of
\* cd_util_write_tag_localized from the i-th on: [ret, prof, reached]
RECURSIVE SaveTranslations(_, _, _, _)
SaveTranslations(p, w, fault, i) ==
  IF ~w.ret
  THEN [ret |-> FALSE, prof |-> w.prof,
        reached |-> IF i = 1 THEN "metadata" ELSE SaveOrder[i - 1]]
  ELSE IF i > Len(SaveOrder)
  THEN [ret |-> TRUE, prof |-> w.prof, reached |-> "all"]
  ELSE SaveTranslations(p,
         cd_util_write_tag_localized(p.version, w.prof, WriteSig(SaveOrder[i]),
                                     p.mluc_data[SaveOrder[i]], fault),
         fault, i + 1)

SaveFailed(prof, file, step) ==
  [ret |-> FALSE, err |-> FAILED_TO_SAVE, prof |-> prof, disk |-> file, step |-> step]

\* lines 960-1003, id is the profile with its identifier computed
SavePersist(id, file, fault) ==
  IF fault.at = FaultSize THEN SaveFailed(id, file, "serialize")
  ELSE IF fault.at = FaultDump THEN SaveFailed(id, file, "serialize")
  ELSE IF fault.at = FaultReplace THEN SaveFailed(id, file, "persist")
  ELSE [ret |-> TRUE, err |-> ERR_NONE, prof |-> id,
        disk |-> cmsSaveProfileToMem(id), step |-> "persist"]

\* lines 950-1003 without the goto out after a failed tag write
SaveFinishNoAbort(t, file, fault) ==
  IF fault.at = FaultMd5 THEN SaveFailed(t.prof, file, "profile-id")
  ELSE SavePersist(cmsMD5computeID(t.prof), file, fault)

\* lines 950-1003, t is what the tag writes returned
SaveFinish(t, file, fault) ==
  IF ~t.ret THEN SaveFailed(t.prof, file, t.reached)
  ELSE IF fault.at = FaultMd5 THEN SaveFailed(t.prof, file, "profile-id")
  ELSE SavePersist(cmsMD5computeID(t.prof), file, fault)

\* cd_icc_save_file: [ret, err, prof, disk, step]; step is the last step run
cd_icc_save_file(p, prof, file, fault) ==
  SaveFinish(SaveTranslations(p, SaveMetadata(p, SaveHeader(p, prof), fault), fault, 1),
             file, fault)

\* ------------------------------------------------------------------- state
VARIABLES
  priv,     \* struct _CdIccPrivate of the CdIcc object in use
  lcms,     \* the lcms profile behind priv.lcms_profile
  disk,     \* the content of the file cd_icc_save_file writes
  last,     \* the last call made and what it returned
  nops,     \* calls made so far
  obj,      \* which CdIcc object is in use (cd_icc_new count)
  opened,   \* lcms profiles created so far (handles are 1..opened)
  written,  \* per field, what cd_icc_set_* stored under each key
  rt,       \* progress of a load / save / reload round trip
  dt        \* progress of a set / save / reload / get trip of a default text

vars == <<priv, lcms, disk, last, nops, obj, opened, written, rt, dt>>

NoCall == [op |-> "none", ret |-> TRUE, err |-> ERR_NONE, value |-> NoText,
           field |-> "", locale |-> NullLocale, data |-> NoFile, flags |-> {},
           opened |-> FALSE, fault |-> NoFault, step |-> "",
           bytes |-> <<>>, fixed |-> <<>>]

NoRt == [stage |-> "none", kind |-> CD_PROFILE_KIND_UNKNOWN,
         colorspace |-> CD_COLORSPACE_UNKNOWN, version |-> 0, metadata |-> EmptyHash]

NoDt == [stage |-> "none", field |-> "", value |-> NoText, alias |-> FALSE]

Init ==
  /\ priv = cd_icc_init
  /\ lcms = NoProfile
  /\ disk = NoFile
  /\ last = NoCall
  /\ nops = 0
  /\ obj = 1
  /\ opened = 0
  /\ written = [m \in CdIccMluc |-> EmptyHash]
  /\ rt = NoRt
  /\ dt = NoDt

\* the round trip a call leaves in progress
RtNext(call, p) ==
  IF call.op = "load_data" /\ call.ret /\ FLAG_METADATA \in call.flags
     /\ rt.stage = "none" /\ obj = 1 /\ priv.lcms_profile = 0
  THEN [stage |-> "loaded", kind |-> p.kind, colorspace |-> p.colorspace,
        version |-> p.version, metadata |-> p.metadata]
  ELSE IF call.op = "save" /\ call.ret /\ rt.stage = "loaded"
  THEN [rt EXCEPT !.stage = "saved"]
  ELSE IF call.op = "new" /\ rt.stage = "saved"
  THEN [rt EXCEPT !.stage = "fresh"]
  ELSE IF call.op = "load_data" /\ call.ret /\ FLAG_METADATA \in call.flags
          /\ rt.stage = "fresh" /\ call.data = disk
  THEN [rt EXCEPT !.stage = "reloaded"]
  ELSE IF rt.stage = "none" THEN rt
  ELSE [rt EXCEPT !.stage = "void"]

\* the trip of a default text a call leaves in progress
DtNext(call) ==
  IF call.op = "set" /\ call.locale = NullLocale /\ priv.lcms_profile # 0
  THEN [stage |-> "set", field |-> call.field, value |-> call.value,
        alias |-> lcms.mlu[SigDscm].present]
  ELSE IF call.op = "save" /\ call.ret /\ dt.stage = "set"
  THEN [dt EXCEPT !.stage = "saved"]
  ELSE IF call.op = "new" /\ dt.stage = "saved"
  THEN [dt EXCEPT !.stage = "fresh"]
  ELSE IF call.op = "load_data" /\ call.ret /\ dt.stage = "fresh" /\ call.data = disk
  THEN [dt EXCEPT !.stage = "reloaded"]
  ELSE IF call.op = "get" /\ call.locale = NullLocale /\ call.field = dt.field
          /\ dt.stage = "reloaded"
  THEN [dt EXCEPT !.stage = "read"]
  ELSE NoDt

Step(call, p, max) ==
  /\ nops < max
  /\ nops' = nops + 1
  /\ last' = call
  /\ rt' = RtNext(call, p)
  /\ dt' = DtNext(call)


Call(op) == [NoCall EXCEPT !.op = op]

\* ----------------------------------------------------------------- actions
\* cd_icc_new on a new object, the one in use before it finalized
NewObject(max) ==
  /\ obj < MaxObjects
  /\ obj' = obj + 1
  /\ priv' = cd_icc_init
  /\ lcms' = NoProfile
  /\ written' = [m \in CdIccMluc |-> EmptyHash]
  /\ Step(Call("new"), cd_icc_init, max)
  /\ UNCHANGED <<disk, opened>>

LoadOutcome(op, r, data, flags, max) ==
  /\ priv' = r.priv
  /\ lcms' = r.prof
  /\ opened' = IF r.opened /\ r.priv.lcms_profile # 0 /\ r.priv.lcms_profile # priv.lcms_profile
               THEN opened + 1 ELSE opened
  /\ Step([Call(op) EXCEPT !.ret = r.ret, !.err = r.err, !.data = data,
                           !.flags = flags, !.opened = r.opened], r.priv, max)
  /\ UNCHANGED <<disk, obj, written>>

LoadData(datas, flagsets, max) ==
  \E data \in datas, flags \in flagsets :
    \E r \in cd_icc_load_data(priv, lcms, data, flags, opened + 1) :
      LoadOutcome("load_data", r, data, flags, max)

LoadFile(files, flagsets, max) ==
  \E file \in files, flags \in flagsets :
    \E r \in cd_icc_load_file(priv, lcms, file, flags, opened + 1) :
      LoadOutcome("load_file", r, file.data, flags, max)

LoadFd(fds, flagsets, max) ==
  \E fd \in fds, flags \in flagsets :
    \E r \in cd_icc_load_fd(priv, lcms, fd, flags, opened + 1) :
      LoadOutcome("load_fd", r, fd.data, flags, max)

\* cd_icc_set_handle with a profile the caller created
SetHandle(profs, max) ==
  \E prof \in profs :
    LET q == cd_icc_set_handle(priv, opened + 1)
        took == q.lcms_profile # priv.lcms_profile
    IN /\ priv' = q
       /\ lcms' = IF took THEN prof ELSE lcms
       /\ opened' = IF took THEN opened + 1 ELSE opened
       /\ Step([Call("set_handle") EXCEPT !.ret = took], q, max)
       /\ UNCHANGED <<disk, obj, written>>

Setter(op, q, max) ==
  /\ priv' = q
  /\ Step(Call(op), q, max)
  /\ UNCHANGED <<lcms, disk, obj, opened, written>>

SetVersion(versions, max) ==
  \E version \in versions : Setter("set_version", [priv EXCEPT !.version = version], max)

SetKind(kinds, max) ==
  \E kind \in kinds : Setter("set_kind", [priv EXCEPT !.kind = kind], max)

SetColorspace(colorspaces, max) ==
  \E colorspace \in colorspaces :
    Setter("set_colorspace", [priv EXCEPT !.colorspace = colorspace], max)

AddMetadata(keys, values, max) ==
  \E key \in keys, value \in values :
    Setter("add_metadata", [priv EXCEPT !.metadata = HashInsert(@, key, value)], max)

RemoveMetadata(keys, max) ==
  \E key \in keys :
    Setter("remove_metadata", [priv EXCEPT !.metadata = HashRemove(@, key)], max)

\* cd_icc_get_description / _copyright / _manufacturer / _model
GetText(fields, locales, max) ==
  \E mluc \in fields, locale \in locales :
    LET r == cd_icc_get_mluc_data(priv.mluc_data, lcms, locale, mluc, ReadSigs(mluc))
        q == [priv EXCEPT !.mluc_data = r.mluc_data]
    IN /\ priv.lcms_profile # 0
       /\ priv' = q
       /\ Step([Call("get") EXCEPT !.ret = (r.value # NoText), !.err = r.err,
                                   !.value = r.value, !.field = mluc,
                                   !.locale = locale], q, max)
       /\ UNCHANGED <<lcms, disk, obj, opened, written>>

\* cd_icc_fix_utf8_string on a string of its caller
FixUtf8(strings, max) ==
  \E string \in strings :
    LET r == cd_icc_fix_utf8_string(string)
    IN /\ Step([Call("fix_utf8") EXCEPT !.ret = r.ret, !.bytes = string,
                                        !.fixed = r.str], priv, max)
       /\ UNCHANGED <<priv, lcms, disk, obj, opened, written>>

\* cd_icc_set_description / _copyright / _manufacturer / _model: the new hash
cd_icc_set_mluc(hash, locale, value) ==
  HashInsert(hash, cd_icc_get_locale_key(locale), value)

SetText(fields, locales, values, max) ==
  \E mluc \in fields, locale \in locales, value \in values :
    LET q == [priv EXCEPT !.mluc_data[mluc] = cd_icc_set_mluc(@, locale, value)]
    IN /\ priv' = q
       /\ written' = [written EXCEPT ![mluc] =
                        HashInsert(@, cd_icc_get_locale_key(locale), value)]
       /\ Step([Call("set") EXCEPT !.field = mluc, !.locale = locale,
                                   !.value = value], q, max)
       /\ UNCHANGED <<lcms, disk, obj, opened>>

\* cd_icc_set_description_items etc.: cd_icc_set_* for every key of values,
\* in the order keys lists them
RECURSIVE SetItemsLoop(_, _, _, _)
SetItemsLoop(hash, values, keys, l) ==
  IF l > Len(keys) THEN hash
  ELSE SetItemsLoop(cd_icc_set_mluc(hash, keys[l], values[keys[l]]), values, keys, l + 1)

SetItems(fields, itemsets, max) ==
  \E mluc \in fields, items \in itemsets :
    LET q == [priv EXCEPT !.mluc_data[mluc] =
                 SetItemsLoop(@, items.values, items.keys, 1)]
    IN /\ priv' = q
       /\ written' = [written EXCEPT ![mluc] =
                        SetItemsLoop(@, items.values, items.keys, 1)]
       /\ Step([Call("set_items") EXCEPT !.field = mluc], q, max)
       /\ UNCHANGED <<lcms, disk, obj, opened>>

SaveFile(faults, max) ==
  \E fault \in faults :
    LET r == cd_icc_save_file(priv, lcms, disk, fault)
    IN /\ priv.lcms_profile # 0
       /\ lcms' = r.prof
       /\ disk' = r.disk
       /\ Step([Call("save") EXCEPT !.ret = r.ret, !.err = r.err,
                                    !.fault = fault, !.step = r.step], priv, max)
       /\ UNCHANGED <<priv, obj, opened, written>>


\* ------------------------------------------------------------------ inputs
L_fr == <<"f", "r">>
L_de == <<"d", "e">>
L_CA == <<"C", "A">>
L_fr_CA == <<"f", "r", "_", "C", "A">>
L_en_US_UTF8 == <<"e", "n", "_", "U", "S", ".", "U", "8">>
L_en_GB_UTF8 == <<"e", "n", "_", "G", "B", ".", "U", "8">>
L_en_GB == <<"e", "n", "_", "G", "B">>
L_e == <<"e">>
L_en_GBX == <<"e", "n", "_", "G", "B", "X">>
L_at == <<"s", "@">>
L_sr_latin == <<"s", "r", "@", "l">>
L_fr_CA_x == <<"f", "r", "_", "C", "A", "_", "x">>
L_fr_ == <<"f", "r", "_">>
L_fr_a_ == <<"f", "r", "_", "a", "_">>
L_en_US == <<"e", "n", "_", "U", "S">>
L_en_USA == <<"e", "n", "_", "U", "S", "A">>
L_en == <<"e", "n">>
L_fr_paren == <<"f", "r", "(", "x">>
L_de_both == <<"d", "e", "(", "a", ".", "b">>
L_dot == <<".", "x">>

Entry(language_code, country_code, wtext) ==
  [language_code |-> language_code, country_code |-> country_code, wtext |-> wtext]
Tag(entries) == [present |-> TRUE, entries |-> entries]

\* a v2.1 display profile without profile id
ProfDisplay ==
  [cls |-> "mntr", space |-> "RGB ", ver |-> 21, id |-> ZeroId,
   mlu |-> [NoMlus EXCEPT
              ![cmsSigProfileDescriptionTag] =
                 Tag({Entry(cmsNoLanguage, cmsNoCountry, Wide("A")),
                      Entry(L_fr, L_CA, Wide("B"))}),
              ![cmsSigCopyrightTag] = Tag({Entry(cmsNoLanguage, cmsNoCountry, Wide("C"))})],
   meta |-> [present |-> TRUE, entries |-> <<[Name |-> Wide("A"), Value |-> Wide("B")]>>],
   ncl2 |-> AbsentNcl]

\* a v4.2 named-colour profile with a profile id whose last byte only is set
ProfNamed ==
  [cls |-> "nmcl", space |-> "Lab ", ver |-> 42,
   id |-> SubSeq(ZeroId, 1, IdLen - 1) \o <<171>>,
   mlu |-> [NoMlus EXCEPT
              ![SigDscm] = Tag({Entry(cmsNoLanguage, cmsNoCountry, Wide("B"))}),
              ![cmsSigProfileDescriptionTag] =
                 Tag({Entry(cmsNoLanguage, cmsNoCountry, Wide("A")),
                      Entry(L_de, cmsNoCountry, Wide("C"))}),
              ![cmsSigDeviceMfgDescTag] = Tag({Entry(cmsNoLanguage, cmsNoCountry, BadW)})],
   meta |-> [present |-> TRUE,
             entries |-> <<[Name |-> Wide("A"), Value |-> Wide("C")],
                           [Name |-> Wide("B"), Value |-> BadW]>>],
   ncl2 |-> [present |-> TRUE,
             colors |-> <<[ok |-> TRUE, prefix |-> <<80>>, name |-> <<49, 56>>,
                           suffix |-> <<67>>, pcs |-> <<65535, 32896, 32896>>],
                          [ok |-> TRUE, prefix |-> <<>>, name |-> <<82, 174>>,
                           suffix |-> <<>>, pcs |-> <<0, 0, 65535>>],
                          [ok |-> TRUE, prefix |-> <<>>, name |-> <<134, 134, 82>>,
                           suffix |-> <<>>, pcs |-> <<0, 0, 0>>]>>]]

\* a profile whose class and colorspace are in neither table, version unset
ProfOdd ==
  [cls |-> "zzzz", space |-> "9CLR", ver |-> 0,
   id |-> <<10>> \o SubSeq(ZeroId, 2, IdLen),
   mlu |-> NoMlus, meta |-> AbsentDict, ncl2 |-> AbsentNcl]

Profiles == {ProfDisplay, ProfNamed, ProfOdd}

Buffer(len, accept, prof, d) ==
  [len |-> len, accept |-> accept, prof |-> prof,
   md5 |-> <<d, 255>> \o SubSeq(ZeroId, 3, IdLen)]

DataDisplay == Buffer(400, TRUE, ProfDisplay, 1)
DataNamed == Buffer(900, TRUE, ProfNamed, 2)
DataOdd == Buffer(132, TRUE, ProfOdd, 3)
DataGarbage == Buffer(132, FALSE, NoProfile, 4)
DataShort == Buffer(131, TRUE, ProfDisplay, 5)
DataOneByte == Buffer(1, FALSE, NoProfile, 6)
DataEmpty == Buffer(0, FALSE, NoProfile, 7)

ValidDatas == {DataDisplay, DataNamed, DataOdd}
Datas == ValidDatas \cup {DataGarbage, DataShort, DataOneByte, DataEmpty}

AllFlags == {FLAG_METADATA, FLAG_NAMED_COLORS, FLAG_TRANSLATIONS, FLAG_FALLBACK_MD5}
FlagSets == (SUBSET (AllFlags \ {FLAG_TRANSLATIONS})) \cup {{FLAG_TRANSLATIONS}, AllFlags}

File(readable, data, queryOk, can_delete) ==
  [readable |-> readable, data |-> data, queryOk |-> queryOk,
   can_delete |-> can_delete, path |-> "/profile.icc"]

Files == {File(FALSE, NoFile, FALSE, FALSE),
          File(TRUE, DataDisplay, TRUE, TRUE),
          File(TRUE, DataOdd, TRUE, FALSE),
          File(TRUE, DataDisplay, FALSE, FALSE),
          File(TRUE, DataGarbage, TRUE, TRUE),
          File(TRUE, DataShort, TRUE, TRUE)}

Fds == {[fdopenOk |-> FALSE, data |-> DataDisplay],
        [fdopenOk |-> TRUE, data |-> DataGarbage],
        [fdopenOk |-> TRUE, data |-> DataDisplay],
        [fdopenOk |-> TRUE, data |-> DataNamed],
        [fdopenOk |-> TRUE, data |-> DataOdd]}

\* ------------------------------------------------------- loading a profile
LoadFromData == LoadData(Datas, FlagSets, MaxOps)
LoadFromFile == LoadFile(Files, {{}, {FLAG_FALLBACK_MD5}}, MaxOps)
LoadFromFd == LoadFd(Fds, {{}, {FLAG_METADATA, FLAG_FALLBACK_MD5}}, MaxOps)
AdoptHandle == SetHandle(Profiles, MaxOps)
SaveLoaded == SaveFile({NoFault}, MaxOps)
ReadLoaded == GetText(CdIccMluc, {NullLocale}, MaxOps)

NextLoad ==
  \/ LoadFromData
  \/ LoadFromFile
  \/ LoadFromFd
  \/ AdoptHandle
  \/ SaveLoaded
  \/ ReadLoaded

SpecLoad == Init /\ [][NextLoad]_vars


\* ------------------------------------------------ the localized text store
TextFields == {CD_MLUC_DESCRIPTION, CD_MLUC_MANUFACTURER}
TextSetLocales == {NullLocale, L_en_US_UTF8, L_fr, L_en_GB_UTF8}
TextGetLocales ==
  {NullLocale, L_fr, L_fr_CA, L_en_GB_UTF8, L_e, L_en_GBX, L_fr_CA_x, L_de, L_fr_a_}
TextValues == {"A", "C"}

TextLoad == LoadData({DataDisplay, DataNamed}, {{}}, MaxTextOps)
TextSet == SetText(TextFields, TextSetLocales, TextValues, MaxTextOps)
TextGet == GetText(TextFields, TextGetLocales, MaxTextOps)

NextText ==
  \/ TextLoad
  \/ TextSet
  \/ TextGet

SpecText == Init /\ [][NextText]_vars

\* ------------------------------------------------------- saving a profile
Items(keys, values) == [keys |-> keys, values |-> values]

SaveFields == {CD_MLUC_DESCRIPTION, CD_MLUC_MODEL}
SaveTextFields == {CD_MLUC_DESCRIPTION}
SaveLocales == {NullLocale, L_fr, L_fr_CA, L_e, L_at}
SaveValues == {"C", Bad8}
SaveItemSets ==
  {Items(<<L_fr, L_fr_CA>>, (L_fr :> "A") @@ (L_fr_CA :> "C")),
   Items(<<L_sr_latin, L_de, L_fr_, L_fr_CA_x>>,
         (L_sr_latin :> "A") @@ (L_de :> "C") @@ (L_fr_ :> "A") @@ (L_fr_CA_x :> "C")),
   Items(<<L_en_US_UTF8, L_en_GB_UTF8, L_en_GBX>>,
         (L_en_US_UTF8 :> "C") @@ (L_en_GB_UTF8 :> "A") @@ (L_en_GBX :> "C"))}
SaveFaults ==
  {NoFault,
   [at |-> FaultMeta, sig |-> ""],
   [at |-> FaultMlu, sig |-> cmsSigProfileDescriptionTag],
   [at |-> FaultTag, sig |-> cmsSigCopyrightTag],
   [at |-> FaultMd5, sig |-> ""],
   [at |-> FaultSize, sig |-> ""],
   [at |-> FaultDump, sig |-> ""],
   [at |-> FaultReplace, sig |-> ""]}

SaveLoad == LoadData({DataDisplay, DataNamed}, {{}, {FLAG_METADATA}}, MaxSaveOps)
SaveAdopt == SetHandle({ProfNamed}, MaxSaveOps)
SaveSetText == SetText(SaveTextFields, SaveLocales, SaveValues, MaxSaveOps)
SaveSetItems == SetItems(SaveFields, SaveItemSets, MaxSaveOps)
SaveSetVersion == SetVersion({21, 40}, MaxSaveOps)
SaveSetKind == SetKind({"input-device"}, MaxSaveOps)
SaveSetColorspace == SetColorspace({"cmyk"}, MaxSaveOps)
SaveAddMetadata == AddMetadata({"A"}, {"B", Bad8}, MaxSaveOps)
SaveRemoveMetadata == RemoveMetadata({"A"}, MaxSaveOps)
Save == SaveFile(SaveFaults, MaxSaveOps)

NextSave ==
  \/ SaveLoad
  \/ SaveAdopt
  \/ SaveSetText
  \/ SaveSetItems
  \/ SaveSetVersion
  \/ SaveSetKind
  \/ SaveSetColorspace
  \/ SaveAddMetadata
  \/ SaveRemoveMetadata
  \/ Save

SpecSave == Init /\ [][NextSave]_vars

\* ------------------------------------------- load, save and load again
TripFlagSets == {{FLAG_METADATA}, {FLAG_METADATA, FLAG_NAMED_COLORS}, AllFlags}

TripLoad == LoadData(ValidDatas \cup {disk}, TripFlagSets, MaxTripOps)
TripSave == SaveFile({NoFault}, MaxTripOps)
TripNew == NewObject(MaxTripOps)
TripSetVersion == SetVersion({21, 40}, MaxTripOps)
TripSetKind == SetKind({"input-device"}, MaxTripOps)

NextTrip ==
  \/ TripLoad
  \/ TripSave
  \/ TripNew
  \/ TripSetVersion
  \/ TripSetKind

SpecTrip == Init /\ [][NextTrip]_vars

\* ------------------------------------------------- locales and their keys
KeyFields == {CD_MLUC_DESCRIPTION, CD_MLUC_COPYRIGHT}
KeyLocales ==
  {NullLocale, L_en_US, L_en_US_UTF8, L_en_USA, L_en, L_en_GB_UTF8, L_fr,
   L_fr_paren, L_de_both, L_dot}

KeySet == SetText(KeyFields, KeyLocales, {"A", "C"}, MaxKeyOps)
KeyNew == NewObject(MaxKeyOps)

NextKey ==
  \/ KeySet
  \/ KeyNew

SpecKey == Init /\ [][NextKey]_vars

\* ------------------------------------------------- the steps of a save
OrderFaults ==
  {NoFault} \cup
  {[at |-> at, sig |-> ""] : at \in {FaultMeta, FaultMd5, FaultSize, FaultDump, FaultReplace}} \cup
  {[at |-> at, sig |-> WriteSig(mluc)] : at \in {FaultMlu, FaultTag}, mluc \in CdIccMluc}
OrderItemSets ==
  {Items(<<L_fr, L_de>>, (L_fr :> "A") @@ (L_de :> "C")),
   Items(<<NullLocale>>, (NullLocale :> "B"))}

OrderLoad == LoadData({DataDisplay, DataNamed}, {{}, {FLAG_METADATA}}, MaxOrderOps)
OrderSetItems == SetItems(CdIccMluc, OrderItemSets, MaxOrderOps)
OrderAddMetadata == AddMetadata({"A"}, {"B", "C"}, MaxOrderOps)
OrderSave == SaveFile(OrderFaults, MaxOrderOps)

NextOrder ==
  \/ OrderLoad
  \/ OrderSetItems
  \/ OrderAddMetadata
  \/ OrderSave

SpecOrder == Init /\ [][NextOrder]_vars

\* --------------------------------------------------- repairing a string
RepairBytes == {82, 134, 174}
RepairStrings == UNION {[1..n -> RepairBytes] : n \in 0..MaxRepairLen}

Repair == FixUtf8(RepairStrings, MaxRepairOps)

NextRepair == Repair

SpecRepair == Init /\ [][NextRepair]_vars

\* ------------------------------------------- a default text, there and back
DefaultLoad == LoadData({DataNamed, DataDisplay, disk}, {{}}, MaxDefaultOps)
DefaultSet == SetText(CdIccMluc, {NullLocale}, {"C", Long128}, MaxDefaultOps)
DefaultSave == SaveFile({NoFault}, MaxDefaultOps)
DefaultNew == NewObject(MaxDefaultOps)
DefaultGet == GetText(CdIccMluc, {NullLocale}, MaxDefaultOps)

NextDefault ==
  \/ DefaultLoad
  \/ DefaultSet
  \/ DefaultSave
  \/ DefaultNew
  \/ DefaultGet

SpecDefault == Init /\ [][NextDefault]_vars

\* ------------------------------------------------------------------ claims
LoadOps == {"load_data", "load_file", "load_fd"}

IsPreLoad(p) ==
  /\ p.lcms_profile = 0
  /\ p.size = 0
  /\ p.checksum = NoChecksum
  /\ p.filename = NoFilename
  /\ p.can_delete = FALSE
  /\ DOMAIN p.metadata = {}
  /\ \A m \in CdIccMluc : DOMAIN p.mluc_data[m] = {}
  /\ p.named_colors = <<>>

\* C2: once the object holds a codec handle, every further load or
\* adoption attempt is rejected and leaves the handle, the profile behind
\* it and everything populated from it unchanged.
C2_HandleAssignedOnce ==
  [][(/\ priv.lcms_profile # 0
      /\ obj' = obj
      /\ last'.op \in LoadOps \cup {"set_handle"})
     => (/\ ~last'.ret
         /\ priv' = priv
         /\ lcms' = lcms)]_vars

\* C4: a load on an object in its pre-load state that reports
\* FailedToOpen or FailedToParse leaves the object in its pre-load state.
C4_FailedLoadLeavesPreLoad ==
  [][(/\ IsPreLoad(priv)
      /\ last'.op \in LoadOps
      /\ last'.err \in {FAILED_TO_OPEN, FAILED_TO_PARSE})
     => IsPreLoad(priv')]_vars

LowerHex == [c \in {"0", "1", "2", "3", "4", "5", "6", "7", "8", "9",
                    "a", "b", "c", "d", "e", "f"} |->
               CASE c = "0" -> 0 [] c = "1" -> 1 [] c = "2" -> 2 [] c = "3" -> 3
                 [] c = "4" -> 4 [] c = "5" -> 5 [] c = "6" -> 6 [] c = "7" -> 7
                 [] c = "8" -> 8 [] c = "9" -> 9 [] c = "a" -> 10 [] c = "b" -> 11
                 [] c = "c" -> 12 [] c = "d" -> 13 [] c = "e" -> 14 [] c = "f" -> 15]

\* str is the 32-character lowercase hex encoding of the 16 bytes
IsLowerHexOf(str, bytes) ==
  /\ Len(str) = 32
  /\ Len(bytes) = 16
  /\ \A i \in 1..32 : str[i] \in DOMAIN LowerHex
  /\ \A i \in 1..16 : 16 * LowerHex[str[2 * i - 1]] + LowerHex[str[2 * i]] = bytes[i]

\* C6: after a successful cd_icc_load_data the checksum is the lowercase
\* hex form of the embedded profile id when one of its 16 bytes is not
\* zero, the lowercase hex MD5 of the input buffer when all are zero and
\* the fallback was requested, and unset otherwise.
C6_ChecksumResolution ==
  (last.op = "load_data" /\ last.ret)
    => LET id == last.data.prof.id
           nonzero == \E i \in 1..16 : id[i] # 0
       IN /\ nonzero => IsLowerHexOf(priv.checksum, id)
          /\ (~nonzero /\ FLAG_FALLBACK_MD5 \in last.flags)
               => IsLowerHexOf(priv.checksum, last.data.md5)
          /\ (~nonzero /\ FLAG_FALLBACK_MD5 \notin last.flags)
               => priv.checksum = NoChecksum

\* a profile whose id is zero except for its last byte was loaded with the
\* fallback requested, and the id was used
C6_Witness ==
  /\ last.op = "load_data"
  /\ last.ret
  /\ FLAG_FALLBACK_MD5 \in last.flags
  /\ last.data.prof.id[1] = 0
  /\ last.data.prof.id[16] # 0
  /\ IsLowerHexOf(priv.checksum, last.data.prof.id)

\* C7: once a load has set the checksum, no later call on the same object
\* changes it.
C7_ChecksumImmutable ==
  [][(priv.checksum # NoChecksum /\ obj' = obj)
     => priv'.checksum = priv.checksum]_vars


\* C1: a get(field, L) made after a set(field, L', v) with to_key(L') =
\* to_key(L) returns the v of the latest such set, whatever other calls
\* were made in between.
C1_CacheCoherence ==
  (last.op = "get" /\ cd_icc_get_locale_key(last.locale) \in DOMAIN written[last.field])
    => last.value = written[last.field][cd_icc_get_locale_key(last.locale)]

\* the position of a field in the order save writes the fields in
FieldIndex(mluc) ==
  CASE mluc = CD_MLUC_DESCRIPTION -> 1
    [] mluc = CD_MLUC_COPYRIGHT -> 2
    [] mluc = CD_MLUC_MANUFACTURER -> 3
    [] mluc = CD_MLUC_MODEL -> 4

\* how many of the four field writes the last save started
FieldsStarted ==
  IF last.step = "metadata" THEN 0
  ELSE IF last.step \in CdIccMluc THEN FieldIndex(last.step)
  ELSE 4

\* the last call was a save and it started the write of the field
SaveStarted(mluc) == last.op = "save" /\ FieldIndex(mluc) <= FieldsStarted

\* the last call was a save and it completed the write of the field
SaveWrote(mluc) == SaveStarted(mluc) /\ last.step # mluc

Count(str, c) == Cardinality({i \in 1..Len(str) : str[i] = c})

\* a key that names a (language, country) pair: empty, "xx" or "xx_YY"
WellFormedKey(k) ==
  \/ k = <<>>
  \/ /\ Count(k, "@") = 0
     /\ \/ Len(k) = 2 /\ Count(k, "_") = 0
        \/ Len(k) = 5 /\ Count(k, "_") = 1 /\ k[3] = "_"

\* the keys of a field whose entry gives a translation record
Surviving(hash) ==
  {k \in DOMAIN hash : WellFormedKey(k) /\ (k = <<>> \/ hash[k] # Bad8)}

\* the record a well-formed key and its text are written as
RecordOf(k, text) ==
  [language_code |-> IF k = <<>> THEN <<>> ELSE <<k[1], k[2]>>,
   country_code |-> IF Len(k) = 5 THEN <<k[4], k[5]>> ELSE <<>>,
   wtext |-> <<"L", text>>]

\* C8: when a save writes a field for which two or more records survive
\* and the version of the profile is below 4.0, the version lcms holds
\* after the write-back is 4.0.
C8_PromotedToV4 ==
  \A mluc \in CdIccMluc :
    (/\ SaveStarted(mluc)
     /\ Cardinality(Surviving(priv.mluc_data[mluc])) >= 2
     /\ priv.version < 40)
      => lcms.ver = 40

\* a v2.1 profile was saved with exactly two surviving descriptions
C8_Witness ==
  /\ last.op = "save"
  /\ last.ret
  /\ priv.version = 21
  /\ Cardinality(Surviving(priv.mluc_data[CD_MLUC_DESCRIPTION])) = 2
  /\ \A mluc \in CdIccMluc \ {CD_MLUC_DESCRIPTION} :
       Cardinality(Surviving(priv.mluc_data[mluc])) < 2
  /\ lcms.ver = 40

\* C9: when a save writes a field for which no record survives, the tag
\* of the field is absent from the profile afterwards and the write of
\* that field is not what made the save fail.
C9_EmptyFieldDeletesTag ==
  \A mluc \in CdIccMluc :
    (SaveStarted(mluc) /\ Surviving(priv.mluc_data[mluc]) = {})
      => /\ ~lcms.mlu[WriteSig(mluc)].present
         /\ last.step # mluc

\* a save succeeded on a profile whose description has entries but none
\* that survives
C9_Witness ==
  /\ last.op = "save"
  /\ last.ret
  /\ DOMAIN priv.mluc_data[CD_MLUC_DESCRIPTION] # {}
  /\ Surviving(priv.mluc_data[CD_MLUC_DESCRIPTION]) = {}
  /\ ~lcms.mlu[cmsSigProfileDescriptionTag].present

\* C10: an entry whose key is not well formed is left out of the written
\* tag and never fails the save: a field whose write completed holds
\* exactly the records of its surviving entries, and a save fails only
\* when lcms or gio report a failure or a default text cannot be converted.
C10_MalformedKeysOmitted ==
  /\ \A mluc \in CdIccMluc :
       (SaveWrote(mluc) /\ Surviving(priv.mluc_data[mluc]) # {})
         => /\ lcms.mlu[WriteSig(mluc)].present
            /\ lcms.mlu[WriteSig(mluc)].entries =
                 {RecordOf(k, priv.mluc_data[mluc][k]) : k \in Surviving(priv.mluc_data[mluc])}
  /\ (/\ last.op = "save"
      /\ last.fault = NoFault
      /\ \A mluc \in CdIccMluc :
           <<>> \in DOMAIN priv.mluc_data[mluc] => priv.mluc_data[mluc][<<>>] # Bad8)
       => last.ret

\* a save succeeded on a description with a three-segment key, a key with
\* '@' or a long country next to well-formed keys
C10_Witness ==
  /\ last.op = "save"
  /\ last.ret
  /\ \E k \in DOMAIN priv.mluc_data[CD_MLUC_DESCRIPTION] : ~WellFormedKey(k)
  /\ Cardinality(Surviving(priv.mluc_data[CD_MLUC_DESCRIPTION])) >= 2
  /\ lcms.mlu[cmsSigProfileDescriptionTag].entries =
       {RecordOf(k, priv.mluc_data[CD_MLUC_DESCRIPTION][k]) :
          k \in Surviving(priv.mluc_data[CD_MLUC_DESCRIPTION])}

\* C3: after a profile is loaded with its metadata, saved with no setter
\* called in between and the saved file is loaded into a new object, the
\* new object has the kind, colorspace, version and metadata of the first.
C3_RoundTrip ==
  rt.stage = "reloaded"
    => /\ priv.kind = rt.kind
       /\ priv.colorspace = rt.colorspace
       /\ priv.version = rt.version
       /\ priv.metadata = rt.metadata

\* the cache key of a locale: empty for no locale and for en_US..., else
\* the characters before the first '.' or '('
ToKey(locale) ==
  IF locale = NullLocale THEN <<>>
  ELSE IF Len(locale) >= 5 /\ SubSeq(locale, 1, 5) = <<"e", "n", "_", "U", "S">> THEN <<>>
  ELSE LET stops == {i \in 1..Len(locale) : locale[i] \in {".", "("}}
       IN IF stops = {} THEN locale
          ELSE SubSeq(locale, 1, (CHOOSE i \in stops : \A j \in stops : i <= j) - 1)

\* a key the read path has to refuse: not empty and not "xx" or "xx_YY"
MalformedReadKey(k) ==
  /\ k # <<>>
  /\ ~(Len(k) = 2 /\ Count(k, "_") = 0)
  /\ ~(Len(k) = 5 /\ Count(k, "_") = 1 /\ k[3] = "_")

\* the step is a get of a key the field does not hold
UncachedGet ==
  /\ nops' = nops + 1
  /\ last'.op = "get"
  /\ ToKey(last'.locale) \notin DOMAIN priv.mluc_data[last'.field]

\* C11: a get of an uncached key whose language is not two characters,
\* whose country is present and not two characters or that has more than
\* two segments fails with InvalidLocale; the empty key is never refused.
C11_ReadRejectsMalformedKey ==
  [][UncachedGet =>
       /\ MalformedReadKey(ToKey(last'.locale))
            => (~last'.ret /\ last'.err = INVALID_LOCALE)
       /\ ToKey(last'.locale) = <<>> => last'.err # INVALID_LOCALE]_vars

\* the tag a field is read from: the first candidate the profile holds
CandidateTags(mluc) ==
  IF mluc = CD_MLUC_DESCRIPTION THEN <<SigDscm, cmsSigProfileDescriptionTag>>
  ELSE <<WriteSig(mluc)>>

HasExactText(prof, mluc, k) ==
  LET idx == {i \in 1..Len(CandidateTags(mluc)) : prof.mlu[CandidateTags(mluc)[i]].present}
      sig == CandidateTags(mluc)[CHOOSE i \in idx : \A j \in idx : i <= j]
  IN /\ idx # {}
     /\ \E e \in prof.mlu[sig].entries :
          /\ e.language_code = (IF k = <<>> THEN <<>> ELSE SubSeq(k, 1, 2))
          /\ e.country_code = (IF Len(k) = 5 THEN SubSeq(k, 4, 5) ELSE <<>>)

\* C12: a get of an uncached well-formed key fails with NoData when no
\* candidate tag exists and when the tag holds no text for the exact
\* (language, country) pair; a get that returns no text reports
\* InvalidLocale or NoData.
C12_NoDataInBothAbsenceCases ==
  [][(nops' = nops + 1 /\ last'.op = "get") =>
       /\ (/\ UncachedGet
           /\ ~MalformedReadKey(ToKey(last'.locale))
           /\ ~HasExactText(lcms, last'.field, ToKey(last'.locale)))
            => (~last'.ret /\ last'.err = NO_DATA)
       /\ ~last'.ret => last'.err \in {INVALID_LOCALE, NO_DATA}]_vars

\* C18: a get that resolves text from the profile adds the entry
\* to_key(locale) -> text to the map of its field and changes nothing else
\* in the four maps; a get that hits the cache or fails changes none.
C18_GetCacheEffect ==
  [][(nops' = nops + 1 /\ last'.op = "get") =>
       IF UncachedGet /\ last'.ret
       THEN priv'.mluc_data =
              [priv.mluc_data EXCEPT ![last'.field] =
                 [k \in (DOMAIN @) \cup {ToKey(last'.locale)} |->
                    IF k = ToKey(last'.locale) THEN last'.value ELSE @[k]]]
       ELSE priv'.mluc_data = priv.mluc_data]_vars

\* C17: the key a setter stores its text under is empty for no locale and
\* for a locale that begins with en_US, and otherwise the locale cut at
\* its first '.' or '('; no key holds a '.' or a '('.
C17_ToKey ==
  [][(nops' = nops + 1 /\ last'.op = "set") =>
       /\ priv'.mluc_data =
            [priv.mluc_data EXCEPT ![last'.field] =
               [k \in (DOMAIN @) \cup {ToKey(last'.locale)} |->
                  IF k = ToKey(last'.locale) THEN last'.value ELSE @[k]]]
       /\ \A mluc \in CdIccMluc : \A k \in DOMAIN priv'.mluc_data[mluc] :
            Count(k, ".") = 0 /\ Count(k, "(") = 0]_vars

\* a text was set for en_GB.UTF-8 after one for an en_US locale: the map
\* holds the keys "" and en_GB
C17_Witness ==
  /\ last.op = "set"
  /\ last.locale = L_en_GB_UTF8
  /\ DOMAIN priv.mluc_data[last.field] = {<<>>, L_en_GB}
  /\ priv.mluc_data[last.field][L_en_GB] = last.value

\* the step is a save
SaveStep == nops' = nops + 1 /\ last'.op = "save"

\* C13: a save of a profile whose metadata holds a key or a value that
\* cannot be converted to wide text fails with FailedToSave and leaves
\* the destination as it was.
C13_MetadataTranscodeFailsSave ==
  [][(/\ SaveStep
      /\ \E k \in DOMAIN priv.metadata : k = Bad8 \/ priv.metadata[k] = Bad8)
       => (~last'.ret /\ last'.err = FAILED_TO_SAVE /\ disk' = disk)]_vars

\* the position of a step in the order of a save
StepIndex(step) ==
  CASE step = "metadata" -> 2
    [] step \in CdIccMluc -> 2 + FieldIndex(step)
    [] step = "profile-id" -> 7
    [] step = "serialize" -> 8
    [] step = "persist" -> 9

\* C14: a save that fails reports FailedToSave, leaves the destination as
\* it was and has run no step after the one that failed (the tags of the
\* later fields and the identifier are untouched); a failure lcms or gio
\* reports at a step fails the save at that step; a save that succeeds has
\* run up to persist and the destination holds the serialized profile.
C14_SaveFailFast ==
  [][SaveStep =>
       /\ ~last'.ret =>
            /\ last'.err = FAILED_TO_SAVE
            /\ disk' = disk
            /\ \A mluc \in CdIccMluc :
                 StepIndex(mluc) > StepIndex(last'.step)
                   => lcms'.mlu[WriteSig(mluc)] = lcms.mlu[WriteSig(mluc)]
            /\ StepIndex(last'.step) = 2 => lcms'.meta = lcms.meta
            /\ StepIndex(last'.step) <= 7 => lcms'.id = lcms.id
       /\ last'.ret =>
            /\ last'.err = ERR_NONE
            /\ last'.step = "persist"
            /\ last'.fault = NoFault \/ last'.fault.at \in {FaultMeta, FaultMlu, FaultTag}
            /\ disk'.prof = lcms'
            /\ disk'.len >= HeaderMin
       /\ (last'.fault.at = FaultMeta /\ DOMAIN priv.metadata # {})
            => (~last'.ret /\ last'.step = "metadata")
       /\ \A mluc \in CdIccMluc :
            (/\ last'.fault.at \in {FaultMlu, FaultTag}
             /\ last'.fault.sig = WriteSig(mluc)
             /\ Surviving(priv.mluc_data[mluc]) # {})
              => (~last'.ret /\ last'.step = mluc)
       /\ last'.fault.at = FaultMd5 => (~last'.ret /\ last'.step = "profile-id")
       /\ last'.fault.at \in {FaultSize, FaultDump} => (~last'.ret /\ last'.step = "serialize")
       /\ last'.fault.at = FaultReplace => (~last'.ret /\ last'.step = "persist")]_vars

\* a save failed at the write of the copyright tag: the description step
\* before it has removed the 'dscm' tag, the manufacturer step after it has
\* not deleted the tag of the empty manufacturer map, nothing was persisted
C14_Witness ==
  /\ last.op = "save"
  /\ ~last.ret
  /\ last.step = CD_MLUC_COPYRIGHT
  /\ lcms.mlu[cmsSigProfileDescriptionTag].present
  /\ ~lcms.mlu[SigDscm].present
  /\ DOMAIN priv.mluc_data[CD_MLUC_MANUFACTURER] = {}
  /\ lcms.mlu[cmsSigDeviceMfgDescTag].present
  /\ disk = NoFile

\* C19: a save, failed or not, leaves every field of the object as it
\* was; a second successful save straight after a successful one leaves
\* the profile and the destination as the first left them.
C19_SaveKeepsModel ==
  [][SaveStep =>
       /\ priv' = priv
       /\ (last.op = "save" /\ last.ret /\ last'.ret)
            => (lcms' = lcms /\ disk' = disk)]_vars

\* two saves in a row succeeded on a profile the first of them changed
C19_Witness ==
  /\ last.op = "save"
  /\ last.ret
  /\ nops = 3
  /\ rt.stage = "void"
  /\ written = [m \in CdIccMluc |-> EmptyHash]
  /\ priv.version = 21
  /\ DOMAIN priv.metadata = {"A"}
  /\ disk.prof = lcms
  /\ lcms.id # ZeroId

\* a byte string with every 0xAE replaced by 0xC2 0xAE and every 0x86 removed
RECURSIVE Repaired(_)
Repaired(s) ==
  IF s = <<>> THEN <<>>
  ELSE (IF s[1] = 174 THEN <<194, 174>>
        ELSE IF s[1] = 134 THEN <<>>
        ELSE <<s[1]>>) \o Repaired(Tail(s))

\* C15: the string Text Repair leaves is its input with every byte 0xAE
\* replaced by 0xC2 0xAE and every byte 0x86 removed, the other bytes kept
\* in order.
C15_TextRepair ==
  last.op = "fix_utf8" => last.fixed = Repaired(last.bytes)

\* the name of a swatch: prefix, name and suffix joined by single spaces
ComposedName(e) ==
  (IF e.prefix = <<>> THEN <<>> ELSE e.prefix \o <<32>>)
    \o e.name
    \o (IF e.suffix = <<>> THEN <<>> ELSE <<32>> \o e.suffix)

\* the names named_colors has to hold for the entries the codec reports
RECURSIVE ExpectedNames(_)
ExpectedNames(colors) ==
  IF colors = <<>> THEN <<>>
  ELSE LET n == ComposedName(colors[1])
       IN (IF ~colors[1].ok THEN <<>>
           ELSE IF g_utf8_validate(n) THEN <<n>>
           ELSE IF g_utf8_validate(Repaired(n)) THEN <<Repaired(n)>>
           ELSE <<>>)
          \o ExpectedNames(Tail(colors))

\* C16: after a load into a new object named_colors is empty when named
\* colors were not requested and otherwise holds, in the order of the
\* codec, one swatch for every entry whose composed name is valid UTF-8 as
\* it is or after Text Repair.
C16_NamedColors ==
  (last.op = "load_data" /\ last.ret) =>
    [i \in 1..Len(priv.named_colors) |-> priv.named_colors[i].name] =
      (IF FLAG_NAMED_COLORS \in last.flags /\ last.data.prof.ncl2.present
       THEN ExpectedNames(last.data.prof.ncl2.colors)
       ELSE <<>>)

\* the value a lookup table gives a signature, unknown when no row before
\* the terminating one holds it
TableImage(table, terminator, unknown, sig) ==
  LET rows == {i \in 1..(Len(table) - 1) : table[i].lcms = sig}
  IN IF table[Len(table)].colord = terminator /\ rows # {}
     THEN table[CHOOSE i \in rows : \A j \in rows : i <= j].colord
     ELSE unknown

\* C20: after a successful load kind is the table image of the device
\* class of the profile and colorspace the table image of its colorspace
\* signature, the unknown value when the table has no row for it.
C20_KindAndColorspaceOnLoad ==
  (last.op \in {"load_data", "load_file", "load_fd"} /\ last.ret) =>
    /\ priv.kind = TableImage(map_profile_kind, CD_PROFILE_KIND_LAST,
                              CD_PROFILE_KIND_UNKNOWN, lcms.cls)
    /\ priv.colorspace = TableImage(map_colorspace, CD_COLORSPACE_LAST,
                                    CD_COLORSPACE_UNKNOWN, lcms.space)

\* the signature a lookup table gives a value of the model, none when no
\* row before the terminating one holds it
TableSigs(table, val) ==
  {table[i].lcms : i \in {j \in 1..(Len(table) - 1) : table[j].colord = val}}

\* the default texts of the object can all be written
DefaultTextsConvert ==
  \A mluc \in CdIccMluc :
    <<>> \in DOMAIN priv.mluc_data[mluc] => priv.mluc_data[mluc][<<>>] # Bad8

\* C21: a save sets the device class (the colorspace) of the profile to
\* the signature the table gives kind (colorspace) and leaves it as it
\* was when the table has no row for the value; the save goes on either way.
C21_SaveMapsKindAndColorspace ==
  [][SaveStep =>
       /\ IF TableSigs(map_profile_kind, priv.kind) = {}
          THEN lcms'.cls = lcms.cls
          ELSE lcms'.cls \in TableSigs(map_profile_kind, priv.kind)
       /\ IF TableSigs(map_colorspace, priv.colorspace) = {}
          THEN lcms'.space = lcms.space
          ELSE lcms'.space \in TableSigs(map_colorspace, priv.colorspace)
       /\ (last'.fault = NoFault /\ DefaultTextsConvert) => last'.ret]_vars

\* a save succeeded on an adopted profile with kind unknown, which kept
\* its class, and colorspace cmyk, which was written
C21_Witness ==
  /\ last.op = "save"
  /\ last.ret
  /\ priv.kind = CD_PROFILE_KIND_UNKNOWN
  /\ lcms.cls = "nmcl"
  /\ priv.colorspace = "cmyk"
  /\ lcms.space = "CMYK"

\* the dictionary the entries of a metadata tag decode to: an entry whose
\* name or value cannot be decoded adds nothing
RECURSIVE DecodedEntries(_)
DecodedEntries(entries) ==
  IF entries = <<>> THEN [k \in {} |-> ""]
  ELSE LET e == entries[Len(entries)]
           before == DecodedEntries(SubSeq(entries, 1, Len(entries) - 1))
       IN IF e.Name = BadW \/ e.Value = BadW THEN before
          ELSE [k \in (DOMAIN before) \cup {e.Name[2]} |->
                  IF k = e.Name[2] THEN e.Value[2] ELSE before[k]]

\* C22: after a load into a new object that asked for the metadata of a
\* profile with a metadata tag, the dictionary holds the decoded key and
\* value of every entry that decodes and nothing for an entry that does
\* not; the load succeeds either way.
C22_MetadataDecodeSkipsBadEntry ==
  [][(/\ nops' = nops + 1
      /\ last'.op = "load_data"
      /\ priv.lcms_profile = 0
      /\ DOMAIN priv.metadata = {}
      /\ last'.data.len >= HeaderMin
      /\ last'.data.accept
      /\ FLAG_METADATA \in last'.flags
      /\ last'.data.prof.meta.present)
       => /\ last'.ret
          /\ priv'.metadata = DecodedEntries(last'.data.prof.meta.entries)]_vars

\* C23: a load from a file that reports an error returns failure, a load
\* of a non-empty file into an object without a handle that returns
\* failure reports an error, and a load that returns success has stored
\* the path of the file.
C23_LoadFileResultMatchesError ==
  [][(nops' = nops + 1 /\ last'.op = "load_file") =>
       /\ last'.err # ERR_NONE => ~last'.ret
       /\ (priv.lcms_profile = 0 /\ last'.data.len > 0 /\ ~last'.ret)
            => last'.err \in {FAILED_TO_OPEN, FAILED_TO_PARSE}
       /\ last'.ret => priv'.filename # NoFilename]_vars

\* C24: a successful save straight after a successful load keeps, in the
\* tag of each of the four fields, every (language, country) translation
\* the tag held when the profile was loaded.
C24_SaveKeepsTranslations ==
  [][(/\ SaveStep
      /\ last'.ret
      /\ last.op \in {"load_data", "load_file", "load_fd"}
      /\ last.ret)
       => \A mluc \in CdIccMluc :
            lcms.mlu[WriteSig(mluc)].entries \subseteq lcms'.mlu[WriteSig(mluc)].entries]_vars

\* C25: a successful save of an object whose metadata dictionary is empty
\* because the metadata was not loaded leaves the metadata tag the
\* profile holds in place.
C25_SaveKeepsUnloadedMetadata ==
  [][(/\ SaveStep
      /\ last'.ret
      /\ DOMAIN priv.metadata = {}
      /\ lcms.meta.present)
       => lcms'.meta = lcms.meta]_vars

\* C26: a save never leaves the profile with a version below the one it
\* has once the header is written: the write of a field sets 4.0 only
\* over a version below 4.0.
C26_PromotionNeverLowers ==
  [][SaveStep =>
       LET native == IF priv.version > 0 THEN priv.version ELSE lcms.ver
       IN \/ lcms'.ver = native
          \/ native < 40 /\ lcms'.ver = 40]_vars

\* C27: after set(field, NULL, v) on a loaded profile, a successful save,
\* and a load of the saved bytes into a new object, get(field, NULL)
\* returns v.
C27_DefaultTextRoundTrip ==
  dt.stage = "read" => (last.ret /\ last.value = dt.value)


====
